---- MODULE Spec2Model ----
(***************************************************************************)
(* Model of src/src/sort.rs (ego-tree): sorting the children of a node of  *)
(* an arena tree.  A sort call snapshots the children (sort_handler), has  *)
(* the slice sorted by a comparator or a key, and then rewrites the        *)
(* sibling chain with NodeMut::swap, one target position after the other.  *)
(* The loop of swap is modelled one iteration per step so that the state   *)
(* between two moves can be observed.                                      *)
(***************************************************************************)
EXTENDS Integers, Sequences, FiniteSets, TLC

\* ---------------------------------------------------------------- bounds
MaxChildren == 3
MaxValue == 3
NumGrand == 2

\* ------------------------------------------------------------ the arena
\* NodeId is a non-zero index into the arena; Option<NodeId>::None is 0.
None == 0
\* The root is the first node of the arena.
Root == 1
\* The node whose children the calls sort: tree.root_mut().
Self == Root

Less == -1
Equal == 0
Greater == 1
\* The comparison did not return: the caller's function panicked.
Unwind == 2

\* NodeId::to_index: the position of the node in the arena's vector.
to_index(id) == id - 1

Node(v, p, pv, nx, fc, lc) ==
    [value |-> v, parent |-> p, prev_sibling |-> pv, next_sibling |-> nx,
     first_child |-> fc, last_child |-> lc]

\* Number of grandchildren hanging under the first child.
Grand(n) == IF n = 0 THEN 0 ELSE NumGrand

\* tree!(root => { c1 => { g1, g2 }, c2, ..., cn }) with nodes created in
\* front-to-back order: root 1, children 2..n+1, grandchildren after them.
MkTree(n, vals) ==
    [id \in 1..(1 + n + Grand(n)) |->
        IF id = Root
        THEN Node(0, None, None, None,
                  IF n > 0 THEN 2 ELSE None, IF n > 0 THEN n + 1 ELSE None)
        ELSE IF id <= n + 1
        THEN Node(vals[id - 1], Root,
                  IF id > 2 THEN id - 1 ELSE None,
                  IF id < n + 1 THEN id + 1 ELSE None,
                  IF id = 2 /\ Grand(n) > 0 THEN n + 2 ELSE None,
                  IF id = 2 /\ Grand(n) > 0 THEN n + 1 + Grand(n) ELSE None)
        ELSE Node(n + 2 + Grand(n) - id, 2,
                  IF id > n + 2 THEN id - 1 ELSE None,
                  IF id < n + 1 + Grand(n) THEN id + 1 ELSE None,
                  None, None)]

has_children(t, id) == t[id].first_child /= None

\* The sibling chain from id on, following next_sibling (at most fuel nodes).
RECURSIVE Walk(_, _, _)
Walk(t, id, fuel) ==
    IF id = None \/ fuel = 0 THEN <<>>
    ELSE <<id>> \o Walk(t, t[id].next_sibling, fuel - 1)

\* NodeRef::children: the children of id, front to back.
children(t, id) == Walk(t, t[id].first_child, Len(t))

\* NodeMut::detach: unlink n from its parent and its siblings.
detach(t, n) ==
    LET p == t[n].parent
        pv == t[n].prev_sibling
        nx == t[n].next_sibling
    IN  IF p = None THEN t
        ELSE [id \in DOMAIN t |->
                IF id = n
                THEN [t[id] EXCEPT !.parent = None, !.prev_sibling = None,
                                   !.next_sibling = None]
                ELSE IF id = pv THEN [t[id] EXCEPT !.next_sibling = nx]
                ELSE IF id = nx THEN [t[id] EXCEPT !.prev_sibling = pv]
                ELSE IF id = p
                THEN [t[id] EXCEPT
                        !.first_child = IF @ = n THEN nx ELSE @,
                        !.last_child = IF @ = n THEN pv ELSE @]
                ELSE t[id]]

\* NodeMut::insert_id_before on node self: new_sibling is detached and
\* linked in as the previous sibling of self.
insert_id_before(t, self, new_sibling) ==
    LET d == detach(t, new_sibling)
        parent_id == d[self].parent
        prev_id == d[self].prev_sibling
    IN  [id \in DOMAIN d |->
            IF id = new_sibling
            THEN [d[id] EXCEPT !.parent = parent_id, !.prev_sibling = prev_id,
                               !.next_sibling = self]
            ELSE IF id = prev_id THEN [d[id] EXCEPT !.next_sibling = new_sibling]
            ELSE IF id = self THEN [d[id] EXCEPT !.prev_sibling = new_sibling]
            ELSE IF id = parent_id
            THEN [d[id] EXCEPT !.first_child = IF @ = self THEN new_sibling ELSE @]
            ELSE d[id]]

\* ------------------------------------------------------- the comparisons
\* Ord::cmp on integers.
Cmp(a, b) == IF a < b THEN Less ELSE IF a = b THEN Equal ELSE Greater

\* The comparators a caller passes to sort_by / sort_by_id; "panic" is one
\* that fails whenever it is called.
Compares == {"cmp", "rev", "panic"}
Compare(c, a, b) ==
    IF c = "cmp" THEN Cmp(a, b) ELSE IF c = "rev" THEN Cmp(b, a) ELSE Unwind

\* The key functions a caller passes to sort_by_key.
KeyFns == {"half", "neg"}
Key(f, v) == IF f = "half" THEN v \div 2 ELSE 0 - v

\* The key functions a caller passes to sort_by_id_key.
IdKeyFns == {"sum", "odd"}
IdKey(f, i, v) == IF f = "sum" THEN i + v ELSE i % 2

\* The closures the sort methods hand to the slice sort; a and b are
\* (id, value) pairs.
\* sort: |a, b| a.cmp(b)
sort_closure(a, b) == Cmp(a[2], b[2])

\* sort_by: |(_, a), (_, b)| compare(a, b)
sort_by_closure(c, a, b) == Compare(c, a[2], b[2])

\* Mutant of the closure of sort_by_key: the keys are compared the wrong
\* way round.
sort_by_key_closure_swapped(f, a, b) == Cmp(Key(f, b[2]), Key(f, a[2]))

\* sort_by_key: |(_, value)| f(value), the keys compared with Ord::cmp
sort_by_key_closure(f, a, b) == Cmp(Key(f, a[2]), Key(f, b[2]))

\* Mutant of the closure of sort_id: descending instead of ascending ids.
sort_id_closure_descending(a, b) == Cmp(to_index(b[1]), to_index(a[1]))

\* sort_id: |a, b| a.cmp(&b) on the indices
sort_id_closure(a, b) == Cmp(to_index(a[1]), to_index(b[1]))

\* sort_by_id: |(ida, _), (idb, _)| compare(ida.to_index(), idb.to_index())
sort_by_id_closure(c, a, b) == Compare(c, to_index(a[1]), to_index(b[1]))

\* Mutant of the closure of sort_by_id_key: the key function is handed the
\* raw NodeId instead of the index.
sort_by_id_key_closure_raw(f, a, b) ==
    Cmp(IdKey(f, a[1], a[2]), IdKey(f, b[1], b[2]))

\* sort_by_id_key: |node| f(node.0.to_index(), node.1)
sort_by_id_key_closure(f, a, b) ==
    Cmp(IdKey(f, to_index(a[1]), a[2]), IdKey(f, to_index(b[1]), b[2]))

\* The closure of call o applied to the pairs a and b.
closure(o, a, b) ==
    IF o.kind = "sort" THEN sort_closure(a, b)
    ELSE IF o.kind = "sort_by" THEN sort_by_closure(o.arg, a, b)
    ELSE IF o.kind = "sort_by_key" THEN sort_by_key_closure(o.arg, a, b)
    ELSE IF o.kind = "sort_id" THEN sort_id_closure(a, b)
    ELSE IF o.kind = "sort_by_id" THEN sort_by_id_closure(o.arg, a, b)
    ELSE sort_by_id_key_closure(o.arg, a, b)

\* slice::sort_by: stable; x is inserted after the last element that is
\* not greater than x.
InsertSorted(s, x, o) ==
    LET p == CHOOSE j \in 0..Len(s) :
                /\ j = 0 \/ closure(o, x, s[j]) /= Less
                /\ \A k \in (j + 1)..Len(s) : closure(o, x, s[k]) = Less
    IN  SubSeq(s, 1, p) \o <<x>> \o SubSeq(s, p + 1, Len(s))

slice_sort_by(nodes, o) ==
    LET ins[k \in 0..Len(nodes)] ==
            IF k = 0 THEN <<>> ELSE InsertSorted(ins[k - 1], nodes[k], o)
    IN  ins[Len(nodes)]

\* f(&mut nodes) in sort_handler does not return: the slice sort compares
\* two of the pairs and the caller's function fails on them (a slice of
\* fewer than two pairs is sorted without a comparison).
unwinds(t, self, o) ==
    LET ids == children(t, self)
    IN  \E i \in 1..Len(ids) : \E j \in 1..Len(ids) :
            /\ i /= j
            /\ closure(o, <<ids[i], t[ids[i]].value>>, <<ids[j], t[ids[j]].value>>)
                    = Unwind

\* sort_handler: the ids of the children before and after the slice sort of
\* call o sorted the (id, value) pairs.
sort_handler(t, self, o) ==
    LET unsorted_ids == children(t, self)
        nodes == [k \in 1..Len(unsorted_ids) |->
                    <<unsorted_ids[k], t[unsorted_ids[k]].value>>]
        after == slice_sort_by(nodes, o)
    IN  <<unsorted_ids, [k \in 1..Len(after) |-> after[k][1]]>>

\* ------------------------------------------------------------- the state
VARIABLES
    tree,       \* the arena: NodeId -> node
    pc,         \* "idle", "swap" (inside the loop of swap), "done",
                \* "panicked" (the call was left by unwinding)
    op,         \* the current (or last) call: [kind, arg]
    repeat,     \* the current call repeats the call just before it
    pre,        \* the arena when the current call started
    unsorted,   \* swap: the original order
    sorted,     \* swap: the target order
    index,      \* swap: the target position to process next (from 0)
    cache,      \* swap: the carried id, or None
    consumed,   \* swap: how many ids the unsorted iterator has yielded
    arm,        \* swap: the match arm the last iteration took
    moves       \* swap: the calls of the closure so far, <<sorted_id, unsorted_id>>

vars == <<tree, pc, op, repeat, pre, unsorted, sorted, index, cache,
          consumed, arm, moves>>

NoOp == [kind |-> "none", arg |-> "none"]

Init ==
    /\ \E n \in 0..MaxChildren : \E vals \in [1..n -> 1..MaxValue] :
          tree = MkTree(n, vals)
    /\ pc = "idle"
    /\ op = NoOp
    /\ repeat = FALSE
    /\ pre = tree
    /\ unsorted = <<>>
    /\ sorted = <<>>
    /\ index = 0
    /\ cache = None
    /\ consumed = 0
    /\ arm = "none"
    /\ moves = <<>>

\* ------------------------------------------------------------- the calls
\* Mutant of the entry: the pairs are compared while the chain is being
\* rewritten, so that a failing comparison leaves a move behind.
CallSortsInPlace(s, o) ==
    /\ pc \in {"idle", "done", "panicked"}
    /\ op' = o
    /\ repeat' = (pc = "done" /\ o = op)
    /\ pre' = tree
    /\ index' = 0
    /\ cache' = None
    /\ consumed' = 0
    /\ arm' = "none"
    /\ IF has_children(tree, s)
       THEN IF unwinds(tree, s, o)
            THEN /\ unsorted' = <<>>
                 /\ sorted' = <<>>
                 /\ tree' = insert_id_before(tree, tree[s].first_child,
                                             tree[s].last_child)
                 /\ moves' = <<<<tree[s].last_child, tree[s].first_child>>>>
                 /\ pc' = "panicked"
            ELSE LET h == sort_handler(tree, s, o)
                 IN  /\ unsorted' = h[1]
                     /\ sorted' = h[2]
                     /\ tree' = tree
                     /\ moves' = <<>>
                     /\ pc' = "swap"
       ELSE /\ unsorted' = <<>>
            /\ sorted' = <<>>
            /\ tree' = tree
            /\ moves' = <<>>
            /\ pc' = "done"

\* Entry of a sort method on node s: if s.has_children(), sort_handler
\* plans the order and swap starts; otherwise the call returns at once.
\* When the caller's function fails inside sort_handler the call is left
\* there, before swap.
Call(s, o) ==
    /\ pc \in {"idle", "done", "panicked"}
    /\ op' = o
    /\ repeat' = (pc = "done" /\ o = op)
    /\ pre' = tree
    /\ tree' = tree
    /\ index' = 0
    /\ cache' = None
    /\ consumed' = 0
    /\ arm' = "none"
    /\ moves' = <<>>
    /\ IF has_children(tree, s)
       THEN IF unwinds(tree, s, o)
            THEN /\ unsorted' = <<>>
                 /\ sorted' = <<>>
                 /\ pc' = "panicked"
            ELSE LET h == sort_handler(tree, s, o)
                 IN  /\ unsorted' = h[1]
                     /\ sorted' = h[2]
                     /\ pc' = "swap"
       ELSE /\ unsorted' = <<>>
            /\ sorted' = <<>>
            /\ pc' = "done"

sort_by(s, c) == Call(s, [kind |-> "sort_by", arg |-> c])

sort(s) == Call(s, [kind |-> "sort", arg |-> "cmp"])

sort_by_key(s, f) == Call(s, [kind |-> "sort_by_key", arg |-> f])

sort_by_id(s, c) == Call(s, [kind |-> "sort_by_id", arg |-> c])

sort_id(s) == Call(s, [kind |-> "sort_id", arg |-> "cmp"])

sort_by_id_key(s, f) == Call(s, [kind |-> "sort_by_id_key", arg |-> f])

\* ------------------------------------------------------------------ swap
\* sorted.iter().position(|&node| node == id): the first position (from 0)
\* of id in sorted, or -1 for Option::None.
position(s, id) ==
    IF \E k \in 1..Len(s) : s[k] = id
    THEN (CHOOSE k \in 1..Len(s) : s[k] = id /\ \A j \in 1..(k - 1) : s[j] /= id) - 1
    ELSE -1

\* Mutant of the closure: receiver and argument exchanged, so that the
\* node unsorted_id is inserted before sorted_id.
swap_closure_exchanged(t, sorted_id, unsorted_id) ==
    insert_id_before(t, sorted_id, unsorted_id)

\* The closure swap of NodeMut::swap: the node unsorted_id gets sorted_id
\* inserted before it.
swap_closure(t, sorted_id, unsorted_id) ==
    insert_id_before(t, unsorted_id, sorted_id)

\* Mutant of the inner loop: the test unsorted_id != id is missing, so the
\* target id itself is handed to the closure.
RECURSIVE scan_no_test(_, _, _, _, _)
scan_no_test(uns, srt, i, id, k) ==
    IF k >= Len(uns) THEN [consumed |-> k, found |-> None]
    ELSE LET unsorted_id == uns[k + 1]
             uindex == position(srt, unsorted_id)
         IN  IF uindex >= 0 /\ uindex < i
             THEN scan_no_test(uns, srt, i, id, k + 1)
             ELSE [consumed |-> k + 1, found |-> unsorted_id]

\* Mutant of the inner loop: it ends as soon as it meets the target id.
RECURSIVE scan_stop_on_match(_, _, _, _, _)
scan_stop_on_match(uns, srt, i, id, k) ==
    IF k >= Len(uns) THEN [consumed |-> k, found |-> None]
    ELSE LET unsorted_id == uns[k + 1]
             uindex == position(srt, unsorted_id)
         IN  IF uindex >= 0 /\ uindex < i
             THEN scan_stop_on_match(uns, srt, i, id, k + 1)
             ELSE IF unsorted_id /= id
             THEN [consumed |-> k + 1, found |-> unsorted_id]
             ELSE [consumed |-> k + 1, found |-> None]

\* Mutant of the inner loop: ids that are already placed are not passed
\* over.
RECURSIVE scan_no_skip(_, _, _, _, _)
scan_no_skip(uns, srt, i, id, k) ==
    IF k >= Len(uns) THEN [consumed |-> k, found |-> None]
    ELSE LET unsorted_id == uns[k + 1]
         IN  IF unsorted_id /= id
             THEN [consumed |-> k + 1, found |-> unsorted_id]
             ELSE scan_no_skip(uns, srt, i, id, k + 1)

\* The inner loop over unsorted.by_ref() for target id at position i, with
\* k ids already consumed: the ids consumed when it ends, and the id it
\* broke on (None when the iterator ran out).
RECURSIVE scan(_, _, _, _, _)
scan(uns, srt, i, id, k) ==
    IF k >= Len(uns) THEN [consumed |-> k, found |-> None]
    ELSE LET unsorted_id == uns[k + 1]
             uindex == position(srt, unsorted_id)
         IN  IF uindex >= 0 /\ uindex < i
             THEN scan(uns, srt, i, id, k + 1)
             ELSE IF unsorted_id /= id
             THEN [consumed |-> k + 1, found |-> unsorted_id]
             ELSE scan(uns, srt, i, id, k + 1)

\* After one iteration of the for loop.
Advance ==
    /\ index' = index + 1
    /\ pc' = IF index + 1 = Len(sorted) THEN "done" ELSE "swap"
    /\ UNCHANGED <<op, repeat, pre, unsorted, sorted>>

\* Mutant of the first arm: the cache is cleared after the move.
SwapCarryMoveClears ==
    /\ pc = "swap"
    /\ cache /= None
    /\ cache /= sorted[index + 1]
    /\ tree' = swap_closure(tree, sorted[index + 1], cache)
    /\ moves' = Append(moves, <<sorted[index + 1], cache>>)
    /\ arm' = "carry_move"
    /\ cache' = None
    /\ UNCHANGED consumed
    /\ Advance

\* Mutant of the first arm: the guard cache_id != id is missing.
SwapCarryMoveUnguarded ==
    /\ pc = "swap"
    /\ cache /= None
    /\ tree' = swap_closure(tree, sorted[index + 1], cache)
    /\ moves' = Append(moves, <<sorted[index + 1], cache>>)
    /\ arm' = "carry_move"
    /\ UNCHANGED <<cache, consumed>>
    /\ Advance

\* Some(cache_id) if cache_id != id => swap(id, cache_id)
SwapCarryMove ==
    /\ pc = "swap"
    /\ cache /= None
    /\ cache /= sorted[index + 1]
    /\ tree' = swap_closure(tree, sorted[index + 1], cache)
    /\ moves' = Append(moves, <<sorted[index + 1], cache>>)
    /\ arm' = "carry_move"
    /\ UNCHANGED <<cache, consumed>>
    /\ Advance

\* Mutant of the second arm: the cache is not cleared.
SwapCarryKeep ==
    /\ pc = "swap"
    /\ cache /= None
    /\ cache = sorted[index + 1]
    /\ arm' = "carry_clear"
    /\ UNCHANGED <<tree, consumed, moves, cache>>
    /\ Advance

\* Some(_) => cache = None
SwapCarryClear ==
    /\ pc = "swap"
    /\ cache /= None
    /\ cache = sorted[index + 1]
    /\ cache' = None
    /\ arm' = "carry_clear"
    /\ UNCHANGED <<tree, consumed, moves>>
    /\ Advance

\* The ids from position k + 1 of uns on that are neither placed before i
\* nor the target id.
RECURSIVE pending(_, _, _, _, _)
pending(uns, srt, i, id, k) ==
    IF k >= Len(uns) THEN <<>>
    ELSE LET unsorted_id == uns[k + 1]
             uindex == position(srt, unsorted_id)
             rest == pending(uns, srt, i, id, k + 1)
         IN  IF (uindex >= 0 /\ uindex < i) \/ unsorted_id = id
             THEN rest
             ELSE <<unsorted_id>> \o rest

\* The closure called for id with each of us in turn.
RECURSIVE swap_each(_, _, _)
swap_each(t, id, us) ==
    IF us = <<>> THEN t
    ELSE swap_each(swap_closure(t, id, Head(us)), id, Tail(us))

\* Mutant of the third arm: the break is missing, so the closure is
\* called for every id left in the iterator.
SwapScanNoBreak ==
    /\ pc = "swap"
    /\ cache = None
    /\ LET id == sorted[index + 1]
           us == pending(unsorted, sorted, index, id, consumed)
       IN  /\ consumed' = Len(unsorted)
           /\ tree' = swap_each(tree, id, us)
           /\ moves' = moves \o [k \in 1..Len(us) |-> <<id, us[k]>>]
           /\ cache' = IF us = <<>> THEN None ELSE us[Len(us)]
    /\ arm' = "scan"
    /\ Advance

\* None => for unsorted_id in unsorted.by_ref() { ... }
SwapScan ==
    /\ pc = "swap"
    /\ cache = None
    /\ LET id == sorted[index + 1]
           r == scan(unsorted, sorted, index, id, consumed)
       IN  /\ consumed' = r.consumed
           /\ IF r.found /= None
              THEN /\ tree' = swap_closure(tree, id, r.found)
                   /\ moves' = Append(moves, <<id, r.found>>)
                   /\ cache' = r.found
              ELSE UNCHANGED <<tree, moves, cache>>
    /\ arm' = "scan"
    /\ Advance

Next ==
    \/ sort(Self)
    \/ \E c \in Compares : sort_by(Self, c)
    \/ \E f \in KeyFns : sort_by_key(Self, f)
    \/ sort_id(Self)
    \/ \E c \in Compares : sort_by_id(Self, c)
    \/ \E f \in IdKeyFns : sort_by_id_key(Self, f)
    \/ SwapCarryMove
    \/ SwapCarryClear
    \/ SwapScan

Spec == Init /\ [][Next]_vars

\* ------------------------------------------------------------ properties
Range(s) == {s[k] : k \in 1..Len(s)}
Kids == children(tree, Self)
PreKids == children(pre, Self)
InCall == pc \in {"swap", "done"}
\* The ids of the children in creation order: 2, 3, ..., n + 1.
CreationOrder == [k \in 1..Len(PreKids) |-> k + 1]

\* C1: once swap has processed every position of the target order, the
\* children of the sorted node, read front to back, are exactly the target
\* order.
C1_SwapRealisesTarget ==
    (pc = "done" /\ has_children(pre, Self)) =>
        /\ Range(sorted) = Range(unsorted) /\ Len(sorted) = Len(unsorted)
        /\ Kids = sorted

C1_Witness ==
    /\ pc = "done"
    /\ Len(sorted) = MaxChildren
    /\ sorted /= unsorted
    /\ Len(moves) >= 2
    /\ Kids = sorted

\* The Ordering of two values under the comparison of a by-value sort.
ValueOrdering(o, a, b) ==
    IF o.kind = "sort" THEN Cmp(a, b)
    ELSE IF o.kind = "sort_by" THEN Compare(o.arg, a, b)
    ELSE Cmp(Key(o.arg, a), Key(o.arg, b))

\* C2: after sort, sort_by or sort_by_key the children are the same ids as
\* before, their values are non-decreasing under the comparison, and
\* children that compare equal are in the order they had before the call.
C2_ValueSortStable ==
    (pc = "done" /\ op.kind \in {"sort", "sort_by", "sort_by_key"}) =>
        /\ Len(Kids) = Len(PreKids)
        /\ Range(Kids) = Range(PreKids)
        /\ \A i \in 1..Len(Kids) : \A j \in (i + 1)..Len(Kids) :
              LET o == ValueOrdering(op, tree[Kids[i]].value, tree[Kids[j]].value)
              IN  /\ o /= Greater
                  /\ o = Equal => position(PreKids, Kids[i]) < position(PreKids, Kids[j])

C2_Witness ==
    /\ pc = "done"
    /\ op.kind = "sort_by_key"
    /\ Len(Kids) = MaxChildren
    /\ Kids /= PreKids
    /\ \E i \in 1..Len(Kids) : \E j \in (i + 1)..Len(Kids) :
          /\ ValueOrdering(op, tree[Kids[i]].value, tree[Kids[j]].value) = Equal
          /\ tree[Kids[i]].value /= tree[Kids[j]].value

\* The Ordering of two children under the comparison of a by-id sort.
IdOrdering(o, t, x, y) ==
    IF o.kind = "sort_by_id" THEN Compare(o.arg, to_index(x), to_index(y))
    ELSE Cmp(IdKey(o.arg, to_index(x), t[x].value),
             IdKey(o.arg, to_index(y), t[y].value))

\* C3: after sort_by_id or sort_by_id_key the children are ascending under
\* the comparator on their creation indices, or under the key of (creation
\* index, value), ties in the order they had before; a reversed index
\* comparator gives descending creation order, and indices 1,2,3 with
\* values d,b,c (here 3,1,2) under the key index + value give b,d,c.
C3_IdSortStable ==
    (pc = "done" /\ op.kind \in {"sort_by_id", "sort_by_id_key"}) =>
        /\ Len(Kids) = Len(PreKids)
        /\ Range(Kids) = Range(PreKids)
        /\ \A i \in 1..Len(Kids) : \A j \in (i + 1)..Len(Kids) :
              LET o == IdOrdering(op, tree, Kids[i], Kids[j])
              IN  /\ o /= Greater
                  /\ o = Equal => position(PreKids, Kids[i]) < position(PreKids, Kids[j])
        /\ op = [kind |-> "sort_by_id", arg |-> "rev"] =>
              \A i \in 1..Len(Kids) : Kids[i] = Len(Kids) + 2 - i
        /\ ( /\ op = [kind |-> "sort_by_id_key", arg |-> "sum"]
             /\ PreKids = <<2, 3, 4>>
             /\ <<tree[2].value, tree[3].value, tree[4].value>> = <<3, 1, 2>> )
           => Kids = <<3, 2, 4>>

C3_Witness ==
    /\ pc = "done"
    /\ op = [kind |-> "sort_by_id_key", arg |-> "sum"]
    /\ PreKids = <<2, 3, 4>>
    /\ <<tree[2].value, tree[3].value, tree[4].value>> = <<3, 1, 2>>
    /\ Kids = <<3, 2, 4>>

\* C4: after sort_id, whatever sorts came before it, the children are in
\* creation order: strictly ascending by id.
C4_SortIdRestores ==
    (pc = "done" /\ op.kind = "sort_id") => Kids = CreationOrder

C4_Witness ==
    /\ pc = "done"
    /\ op.kind = "sort_id"
    /\ Len(PreKids) = MaxChildren
    /\ PreKids /= CreationOrder
    /\ PreKids[1] /= 2
    /\ Kids = CreationOrder

\* C5: the same sort called twice in a row gives the order the first call
\* gave; and a pass over a chain that is already in the target order leaves
\* the order as it is after each of its moves.
C5_Idempotent ==
    /\ (pc = "done" /\ repeat) => Kids = PreKids
    /\ (InCall /\ sorted = unsorted) => Kids = PreKids

C5_Witness ==
    /\ pc = "done"
    /\ repeat
    /\ Len(PreKids) = MaxChildren
    /\ Len(moves) >= 1
    /\ Kids = PreKids

\* C6: in every state of a sort call, after each single move as well, the
\* children of the sorted node are the ids they were when the call began,
\* each exactly once.
C6_PermutationClosure ==
    /\ Len(Kids) = Len(PreKids)
    /\ Range(Kids) = Range(PreKids)
    /\ Cardinality(Range(Kids)) = Len(Kids)
    /\ {id \in DOMAIN tree : tree[id].parent = Self} = Range(PreKids)

C6_Witness ==
    /\ pc = "swap"
    /\ Len(moves) >= 1
    /\ Kids /= PreKids
    /\ Kids /= sorted

\* C7: a sort call changes sibling positions of the children of the sorted
\* node and nothing else: every value, every parent link, the children of
\* every other node and the sibling links of every node that is not a
\* child of the sorted node are what they were when the call began.
C7_SubtreePreserved ==
    /\ DOMAIN tree = DOMAIN pre
    /\ \A id \in DOMAIN tree :
          /\ tree[id].value = pre[id].value
          /\ tree[id].parent = pre[id].parent
          /\ id /= Self =>
                /\ tree[id].first_child = pre[id].first_child
                /\ tree[id].last_child = pre[id].last_child
                /\ children(tree, id) = children(pre, id)
          /\ pre[id].parent /= Self =>
                /\ tree[id].prev_sibling = pre[id].prev_sibling
                /\ tree[id].next_sibling = pre[id].next_sibling

C7_Witness ==
    /\ pc = "done"
    /\ Kids /= PreKids
    /\ \E k \in 2..Len(Kids) : \E m \in 1..Len(moves) :
          /\ Len(children(tree, Kids[k])) >= 2
          /\ Kids[k] \in Range(moves[m])
          /\ PreKids[1] = Kids[k]

\* C8: with no child or one child a sort call makes no move and leaves the
\* arena as it was; with no child swap is not entered at all.
C8_NoOp ==
    (InCall /\ Len(PreKids) <= 1) =>
        /\ moves = <<>>
        /\ tree = pre
        /\ cache = None
        /\ Len(PreKids) = 0 => (pc = "done" /\ index = 0 /\ arm = "none")

C8_Witness ==
    /\ pc = "done"
    /\ Len(PreKids) = 1
    /\ arm = "scan"
    /\ index = 1
    /\ consumed = 1

\* The carry arm is about to run: a carry is held and it is not the target.
CarryDiffers == pc = "swap" /\ cache /= None /\ cache /= sorted[index + 1]

\* C9 (as amended): when the carry c differs from the target s of the
\* position, the step issues exactly one move, after which s is the
\* previous sibling of c (s is the node moved, c the anchor), and the
\* carry still holds c.
C9_CarryStep ==
    [][CarryDiffers =>
          LET s == sorted[index + 1]
              c == cache
          IN  /\ moves' = Append(moves, <<s, c>>)
              /\ cache' = c
              /\ tree'[c].prev_sibling = s
              /\ tree'[s].next_sibling = c]_vars

\* C9 as stated: after the move the carried node c is immediately before s.
C9_AsStated ==
    [][CarryDiffers =>
          LET s == sorted[index + 1]
              c == cache
          IN  /\ Len(moves') = Len(moves) + 1
              /\ cache' = c
              /\ tree'[s].prev_sibling = c
              /\ tree'[c].next_sibling = s]_vars

C9_Witness ==
    /\ arm = "carry_move"
    /\ Len(moves) >= 2
    /\ cache /= None
    /\ moves[Len(moves)] = <<sorted[index], cache>>
    /\ tree[cache].prev_sibling = sorted[index]
    /\ Kids /= PreKids

\* The position in unsorted of the first id after the first k that is not
\* passed over at the current index (0 when there is none).
NextPending(k) ==
    LET c == {j \in (k + 1)..Len(unsorted) : position(sorted, unsorted[j]) >= index}
    IN  IF c = {} THEN 0 ELSE CHOOSE j \in c : \A m \in c : j <= m

\* No carry is held and the first id not passed over is the target.
InPlace ==
    /\ pc = "swap"
    /\ cache = None
    /\ NextPending(consumed) /= 0
    /\ unsorted[NextPending(consumed)] = sorted[index + 1]

\* C10 (as amended): when no carry is held and the first id u not passed
\* over is the target s, the scan goes on behind u: if a further id u2 is
\* not passed over, s is moved before u2, which leaves the order of the
\* children as it is, and u2 becomes the carry; only if there is none is
\* no move issued and the carry left empty, the whole suffix consumed.
C10_InPlaceStep ==
    [][InPlace =>
          LET s == sorted[index + 1]
              j2 == NextPending(NextPending(consumed))
          IN  IF j2 = 0
              THEN /\ moves' = moves
                   /\ cache' = None
                   /\ consumed' = Len(unsorted)
                   /\ tree' = tree
              ELSE /\ moves' = Append(moves, <<s, unsorted[j2]>>)
                   /\ cache' = unsorted[j2]
                   /\ consumed' = j2
                   /\ children(tree', Self) = children(tree, Self)]_vars

\* C10 as stated: no move, the carry stays empty and the scan stops at u.
C10_AsStated ==
    [][InPlace =>
          /\ moves' = moves
          /\ cache' = None
          /\ consumed' = NextPending(consumed)
          /\ tree' = tree]_vars

C10_Witness ==
    /\ pc = "swap"
    /\ arm = "scan"
    /\ cache /= None
    /\ consumed >= 2
    /\ unsorted[consumed] = cache
    /\ unsorted[consumed - 1] = sorted[index]
    /\ moves = <<<<sorted[index], cache>>>>
    /\ Kids = PreKids

\* A step that calls the closure, and the call it makes.
Moves == Len(moves') > Len(moves)
LastMove == moves'[Len(moves')]

\* C11: every move names two different ids, and at the moment of the move
\* both are children of the node whose children are sorted.
C11_MovePrecondition ==
    [][Moves =>
          /\ LastMove[1] /= LastMove[2]
          /\ tree[LastMove[1]].parent = Self
          /\ tree[LastMove[2]].parent = Self
          /\ LastMove[1] \in Range(Kids)
          /\ LastMove[2] \in Range(Kids)]_vars

C11_Witness ==
    /\ pc = "swap"
    /\ Len(moves) >= 2
    /\ moves[1][2] = moves[2][2]
    /\ moves[1][1] /= moves[2][1]
    /\ \A k \in 1..Len(moves) : moves[k][1] /= moves[k][2]

\* C12: a move issued while position i is processed uses no id whose place
\* in the target order is before i, neither as the node moved nor as the
\* anchor; and no id is the node moved (the sorted_id of the closure) in
\* two moves of one pass.
C12_PlacedUntouched ==
    [][Moves =>
          /\ \A j \in 1..index : sorted[j] \notin {LastMove[1], LastMove[2]}
          /\ position(sorted, LastMove[1]) >= index
          /\ position(sorted, LastMove[2]) >= index
          /\ \A k \in 1..Len(moves) : moves[k][1] /= LastMove[1]]_vars

\* A scan that passed over a placed id after earlier moves.
C12_Witness ==
    /\ arm = "scan"
    /\ Len(moves) >= 1
    /\ consumed >= 2
    /\ index >= 2
    /\ position(sorted, unsorted[consumed - 1]) < index - 1
    /\ Kids = sorted
    /\ Kids /= PreKids

\* The chain of id's children read back to front, following prev_sibling.
RECURSIVE WalkBack(_, _, _)
WalkBack(t, id, fuel) ==
    IF id = None \/ fuel = 0 THEN <<>>
    ELSE <<id>> \o WalkBack(t, t[id].prev_sibling, fuel - 1)

Reverse(s) == [k \in 1..Len(s) |-> s[Len(s) + 1 - k]]

\* C13: in every state of a pass the children of the sorted node form a
\* consistent doubly linked list: next and previous links are inverse to
\* each other, first_child has no previous and last_child no next sibling,
\* and reading back to front gives the reverse of reading front to back.
C13_ChainWellFormed ==
    /\ WalkBack(tree, tree[Self].last_child, Len(tree)) = Reverse(Kids)
    /\ Len(Kids) = Len(PreKids)
    /\ has_children(tree, Self) =>
          /\ tree[tree[Self].first_child].prev_sibling = None
          /\ tree[tree[Self].last_child].next_sibling = None
    /\ (tree[Self].first_child = None) = (tree[Self].last_child = None)
    /\ \A k \in 1..Len(Kids) :
          /\ tree[Kids[k]].next_sibling =
                (IF k < Len(Kids) THEN Kids[k + 1] ELSE None)
          /\ tree[Kids[k]].prev_sibling = (IF k > 1 THEN Kids[k - 1] ELSE None)

\* The first move took the last child to the front, so that first_child
\* and last_child both changed.
C13_Witness ==
    /\ pc = "done"
    /\ Len(moves) >= 2
    /\ moves[1] = <<PreKids[Len(PreKids)], PreKids[1]>>
    /\ tree[Self].first_child /= pre[Self].first_child
    /\ tree[Self].last_child /= pre[Self].last_child
    /\ WalkBack(tree, tree[Self].last_child, Len(tree)) = Reverse(sorted)

\* C14: sort_handler has the whole snapshot and the whole target order
\* before swap makes its first move and does not touch the arena; a call
\* whose comparator fails leaves the arena as it was when the call began.
C14_PlanBeforeMutate ==
    /\ pc = "panicked" => (tree = pre /\ moves = <<>>)
    /\ (pc = "swap" /\ moves = <<>>) => tree = pre
    /\ (InCall /\ has_children(pre, Self)) =>
          /\ unsorted = PreKids
          /\ Len(sorted) = Len(PreKids)
          /\ Range(sorted) = Range(PreKids)

C14_Witness ==
    /\ pc = "panicked"
    /\ Len(Kids) = MaxChildren
    /\ Kids /= CreationOrder
    /\ tree = pre
    /\ op.arg = "panic"

\* C15: processing one target position issues at most one move, and a pass
\* over n children issues at most n moves.
C15_MoveBound ==
    [][pc = "swap" =>
          /\ Len(moves') <= Len(moves) + 1
          /\ Len(moves') <= index'
          /\ Len(moves') <= Len(sorted)]_vars

C15_Witness ==
    /\ pc = "done"
    /\ Len(PreKids) = MaxChildren
    /\ Len(moves) = MaxChildren - 1
    /\ arm = "carry_clear"

\* The ids of s whose place in the target order is i or later, in the
\* order of s.
RECURSIVE Unplaced(_, _)
Unplaced(s, i) ==
    IF s = <<>> THEN <<>>
    ELSE IF position(sorted, Head(s)) >= i
    THEN <<Head(s)>> \o Unplaced(Tail(s), i)
    ELSE Unplaced(Tail(s), i)

\* C16: when index positions have been processed, the first index
\* children are the first index ids of the target order, and the children
\* behind them are the ids not yet placed, in the order they have in the
\* original order.
C16_LoopInvariant ==
    (InCall /\ has_children(pre, Self)) =>
        /\ SubSeq(Kids, 1, index) = SubSeq(sorted, 1, index)
        /\ SubSeq(Kids, index + 1, Len(Kids)) = Unplaced(unsorted, index)

C16_Witness ==
    /\ pc = "swap"
    /\ index = 1
    /\ Len(Kids) = MaxChildren
    /\ Kids[1] = sorted[1]
    /\ Kids /= sorted
    /\ Kids /= PreKids
    /\ SubSeq(Kids, 2, Len(Kids)) = Unplaced(unsorted, 1)

\* C17: a carry held when position index is about to be processed is the
\* child at that position of the chain, and its place in the target order
\* is index or later; when the pass has ended no carry is held.
C17_CarryInvariant ==
    /\ (pc = "swap" /\ cache /= None) =>
          /\ Kids[index + 1] = cache
          /\ position(sorted, cache) >= index
          /\ cache = sorted[index + 1] => Kids[index + 1] = sorted[index + 1]
    /\ pc = "done" => cache = None

C17_Witness ==
    /\ pc = "swap"
    /\ cache /= None
    /\ index = 2
    /\ Len(moves) = 2
    /\ Kids[index + 1] = cache
    /\ cache = sorted[index + 1]

====
